---- MODULE Spec2Model ----
(***************************************************************************)
(* A model of scripts/mcp_jsonrpc_smoke_test.py: the stdio JSON-RPC smoke  *)
(* test harness (frame codec, process launcher, response correlation,      *)
(* teardown).                                                              *)
(*                                                                         *)
(* Wire abstraction.  A stream is a sequence of units.  Structural bytes   *)
(* (":", " ", "\r", "\n", "{", "}", ",", the decimal digits) are units of  *)
(* their own; a header name, a JSON key with its colon and a JSON string   *)
(* literal are one opaque unit each.  Lengths are counted in units by the  *)
(* writer (len(body)) and by the reader (read(length)) alike.              *)
(*                                                                         *)
(* Time.  The clock `now` counts select timeouts (0.5 s each).  It moves   *)
(* when select times out, when a blocking read waits for the child, and    *)
(* when the loop spins on an end-of-stream; code that runs without         *)
(* waiting takes no time.                                                  *)
(***************************************************************************)
EXTENDS Integers, Sequences, FiniteSets, TLC

\* ---------------------------------------------------------------- bounds
\* 15.0 s and 5.0 s of run_sequence, counted in select timeouts and scaled down.
MainTimeout == 2
ShutdownTimeout == 2
\* Frames the child may write in one run.
MaxFrames == 5
\* Frames other than well-formed responses among them.
MaxOdd == 1
\* Lines of the Rust file given to count_unwraps_in_file.
MaxLines == 4
\* Lines the child writes to its stderr in one run.
MaxErrLines == 2
\* Messages written in one run of the codec on its own.
MaxMsgs == 2
\* A response id of two digits, whose body is long enough for a two-digit length.
WideId == 12
\* Units the child's stdout pipe holds before the child's write would wait.
PipeCap == 18
\* How long the clock is followed while the harness waits inside a read.
MaxBlocked == 3

\* ------------------------------------------------------- program constants
REQ_INIT == 1
REQ_LIST == 2
REQ_HEALTH == 3
REQ_QUERY == 4
REQ_SHUTDOWN == 5

Batch == {REQ_INIT, REQ_LIST, REQ_HEALTH, REQ_QUERY}
Ids == Batch \cup {REQ_SHUTDOWN}

\* ---------------------------------------------------------- Python values
\* What resp.get("id") gives for a dict without an "id" member: None, which is
\* also a legal key of the responses dict.
NoId == 0
\* A string-valued member that is not there.
NoStr == "None"

PyNone == [kind |-> "none"]
PyInt(n) == [kind |-> "int", val |-> n]
PyDict(i, m, r) == [kind |-> "dict", id |-> i, method |-> m, result |-> r]

Request(i, m) == PyDict(i, m, NoStr)
\* A response is told from another one with the same id by its result.
Response(i, t) == PyDict(i, NoStr, t)

Tags == {"a", "b"}

Requests ==
    { Request(REQ_INIT, "initialize"), Request(REQ_LIST, "tools/list"),
      Request(REQ_HEALTH, "tools/call(health_check)"),
      Request(REQ_QUERY, "tools/call(query_memory)"),
      Request(REQ_SHUTDOWN, "shutdown") }

Dicts ==
    Requests \cup { Response(i, t) : i \in Ids \cup {NoId}, t \in Tags }

\* The messages the codec is given to write.
Msgs == Dicts \cup {Response(WideId, "a")}

\* JSON texts that are valid but no object: the numbers 0 and 7.
JsonValues == Msgs \cup {PyInt(0), PyInt(7)}

IsDict(v) == v.kind = "dict"

Digit == <<"0", "1", "2", "3", "4", "5", "6", "7", "8", "9">>
DigitVal(c) == CHOOSE d \in 0..9 : Digit[d + 1] = c
IsDigit(c) == \E d \in 0..9 : Digit[d + 1] = c

RECURSIVE DecStr(_)
\* str(n) for n >= 0, as the f-string of write_lsp_message renders len(body)
DecStr(n) ==
    IF n < 10 THEN <<Digit[n + 1]>>
    ELSE DecStr(n \div 10) \o <<Digit[(n % 10) + 1]>>

\* one "key":value member of an object, nothing for a member that is not there
Member(key, val) == IF val = <<>> THEN <<>> ELSE <<<<key>> \o val>>

RECURSIVE JoinComma(_)
JoinComma(ms) ==
    IF ms = <<>> THEN <<>>
    ELSE IF Len(ms) = 1 THEN ms[1]
    ELSE ms[1] \o <<",">> \o JoinComma(Tail(ms))

\* json.dumps(obj, separators=(",", ":")).encode("utf-8")
JsonDumps(v) ==
    IF IsDict(v)
    THEN <<"{">> \o
         JoinComma( <<<<"jsonrpc:2.0">>>> \o
                    Member("id:", IF v.id = NoId THEN <<>> ELSE DecStr(v.id)) \o
                    Member("method:", IF v.method = NoStr THEN <<>> ELSE <<v.method>>) \o
                    Member("result:", IF v.result = NoStr THEN <<>> ELSE <<v.result>>) )
         \o <<"}">>
    ELSE DecStr(v.val)

\* json.loads(body): the value whose compact text the body is; anything else
\* raises JSONDecodeError.
JsonValid(body) == \E v \in JsonValues : JsonDumps(v) = body
JsonLoads(body) == CHOOSE v \in JsonValues : JsonDumps(v) = body

\* ------------------------------------------------------------ frame codec
\* A header block declaring n, then body.
Frame(n, body) ==
    <<"Content-Length", ":", " ">> \o DecStr(n) \o <<"\r", "\n", "\r", "\n">> \o body

\* The bytes write_lsp_message puts on the stream for obj.
Encode(v) == Frame(Len(JsonDumps(v)), JsonDumps(v))

RECURSIVE IndexOf(_, _, _)
\* first position >= i of unit c in s, 0 when there is none
IndexOf(s, c, i) ==
    IF i > Len(s) THEN 0
    ELSE IF s[i] = c THEN i
    ELSE IndexOf(s, c, i + 1)

\* stdout.readline() returns once a newline is there, or at end-of-stream.
CanReadline(s, eof) == IndexOf(s, "\n", 1) > 0 \/ eof
LineLen(s) == IF IndexOf(s, "\n", 1) > 0 THEN IndexOf(s, "\n", 1) ELSE Len(s)

IsSpace(c) == c \in {" ", "\t", "\r", "\n"}

RECURSIVE LStrip(_)
LStrip(s) == IF s # <<>> /\ IsSpace(s[1]) THEN LStrip(Tail(s)) ELSE s
RECURSIVE RStrip(_)
RStrip(s) ==
    IF s # <<>> /\ IsSpace(s[Len(s)]) THEN RStrip(SubSeq(s, 1, Len(s) - 1)) ELSE s
\* str.strip()
Strip(s) == RStrip(LStrip(s))

LowerUnit(c) ==
    IF c \in {"Content-Length", "CONTENT-LENGTH"} THEN "content-length" ELSE c
\* str.lower()
Lower(s) == [i \in 1..Len(s) |-> LowerUnit(s[i])]

RECURSIVE DigitsVal(_)
DigitsVal(s) ==
    IF s = <<>> THEN 0 ELSE DigitsVal(SubSeq(s, 1, Len(s) - 1)) * 10 + DigitVal(s[Len(s)])

AllDigits(s) == s # <<>> /\ \A i \in 1..Len(s) : IsDigit(s[i])

\* int(text), with ValueError -> 0 as read_lsp_message handles it
IntOrZero(s) ==
    IF AllDigits(s) THEN DigitsVal(s)
    ELSE IF s # <<>> /\ s[1] = "-" /\ AllDigits(Tail(s)) THEN 0 - DigitsVal(Tail(s))
    ELSE 0

CL == <<"content-length">>

\* headers.get("content-length", "0")
HeaderGet(h) == IF CL \in DOMAIN h THEN h[CL] ELSE <<"0">>

\* headers[k.strip().lower()] = v.strip() for a line holding a colon
HeaderPut(h, line) ==
    LET c == IndexOf(line, ":", 1)
        k == Lower(Strip(SubSeq(line, 1, c - 1)))
        v == Strip(SubSeq(line, c + 1, Len(line)))
    IN  [x \in DOMAIN h \cup {k} |-> IF x = k THEN v ELSE h[x]]

NoHeaders == [x \in {} |-> <<>>]

\* ------------------------------------------------------------------ state
VARIABLES
    pc,             \* where the harness is in main() / run_sequence()
    nextReq,        \* index of the next batch request to write (1..4)
    pass,           \* which polling loop of run_sequence runs: "main" / "shutdown"
    now,            \* time.time()
    deadline,       \* deadline / shutdown_deadline
    wanted,         \* run_sequence: wanted
    responses,      \* run_sequence: responses (a dict: a function on its keys)
    shutdown_resp,  \* run_sequence: shutdown_resp
    headers,        \* read_lsp_message: headers
    length,         \* read_lsp_message: length
    printed,        \* the lines printed so far
    exc,            \* the exception that is propagating, "none" when there is none
    tlog,           \* the calls main()'s finally block has made on proc
    stdin,          \* everything written to the child's stdin
    stdout,         \* the unread content of the child's stdout pipe
    child,          \* "none" / "running" / "exited" / "killed"
    frames,         \* how many frames the child has written
    odd,            \* how many of them were no well-formed response
    answered,       \* ids the child has written a response for
    intime,         \* ids answered while the loop that waits for them was polling
    osEnv,          \* os.environ of the harness
    cfgEnv,         \* "env" of the server's entry in .mcp.json
    compat,         \* --compat given as true
    env_vars,       \* spawn_server: env_vars
    childEnv,       \* the environment the child runs with
    decodedMain,    \* history: the dicts read_lsp_message gave the main loop
    decodedShut,    \* history: the dicts read_lsp_message gave the shutdown loop
    outOfOrder,     \* history: the main loop took a batch response ahead of a lower id
    mainEnd,        \* history: the clock when the main loop was left (-1 before)
    lastRead,       \* history: the last body read: declared and actual length
    stderr,         \* the unread lines in the child's stderr pipe
    relay,          \* the drain_stderr thread: "none" / "running" / "done"
    errout,         \* what became of each line the relay took: "forwarded" / "lost"
    file_path,      \* count_unwraps_in_file: file_path
    lines,          \* count_unwraps_in_file: lines
    line_num,       \* count_unwraps_in_file: how many lines the loop has been through
    in_test_module, \* count_unwraps_in_file: in_test_module
    production_count, \* count_unwraps_in_file: production_count
    test_count,     \* count_unwraps_in_file: test_count
    brace_count,    \* count_unwraps_in_file: brace_count
    counted         \* history: how each line was counted: "prod" / "test" / "none"

harnessVars == <<pc, nextReq, pass, now, deadline, wanted, responses, shutdown_resp,
                 headers, length, printed, exc, tlog>>
ioVars == <<stdin, stdout, child, frames, odd, answered, intime>>
envVars == <<osEnv, cfgEnv, compat, env_vars, childEnv>>
histVars == <<decodedMain, decodedShut, outOfOrder, mainEnd, lastRead>>
relayVars == <<stderr, relay, errout>>
countVars == <<file_path, lines, line_num, in_test_module, production_count,
               test_count, brace_count, counted>>
vars == <<harnessVars, ioVars, envVars, histVars, relayVars, countVars>>

\* --------------------------------------------------------------- dict ops
EmptyDict == [x \in {} |-> PyNone]
\* d.get(k)
Get(d, k) == IF k \in DOMAIN d THEN d[k] ELSE PyNone
\* Mutant of Put: an entry that is there is kept (first write wins).
Put_FirstWins(d, k, v) ==
    IF k \in DOMAIN d THEN d ELSE [x \in DOMAIN d \cup {k} |-> IF x = k THEN v ELSE d[x]]

\* d[k] = v
Put(d, k, v) == [x \in DOMAIN d \cup {k} |-> IF x = k THEN v ELSE d[x]]

\* ------------------------------------------------------------ environment
EnvKeys == {"RUST_LOG", "MCP_COMPAT_ALIASES", "HOME"}
Unset == "<unset>"
EnvVals == {Unset, "true", "debug"}
NoEnv == [k \in EnvKeys |-> Unset]

\* env_vars.update({k: str(v) for k, v in env.items()})
EnvUpdate(base, over) == [k \in EnvKeys |-> IF over[k] # Unset THEN over[k] ELSE base[k]]
\* env_vars.setdefault("RUST_LOG", "off")
EnvSetDefault(e, k, v) == [e EXCEPT ![k] = IF e[k] = Unset THEN v ELSE e[k]]

\* main(): cmd_env with MCP_COMPAT_ALIASES forced when --compat is true
CmdEnv(cfg, c) == IF c THEN [cfg EXCEPT !["MCP_COMPAT_ALIASES"] = "true"] ELSE cfg

\* spawn_server: the env_vars it builds
BuildEnvVars(os, over) == EnvSetDefault(EnvUpdate(os, over), "RUST_LOG", "off")

\* subprocess.Popen is called without env=: the child inherits os.environ.
PopenEnv(os, built) == os

\* ------------------------------------------------------------------- init
\* No relay thread yet and nothing on stderr.
RelayIdle == stderr = <<>> /\ relay = "none" /\ errout = <<>>

\* count_unwraps_in_file is not running.
CountIdle ==
    /\ file_path = <<>> /\ lines = <<>> /\ line_num = 0
    /\ in_test_module = FALSE /\ production_count = 0 /\ test_count = 0
    /\ brace_count = 0 /\ counted = <<>>

HarnessInit ==
    /\ pc = "load_config" /\ nextReq = 1 /\ pass = "main"
    /\ now = 0 /\ deadline = 0
    /\ wanted = {} /\ responses = EmptyDict /\ shutdown_resp = PyNone
    /\ headers = NoHeaders /\ length = 0
    /\ printed = <<>> /\ exc = "none" /\ tlog = <<>>
    /\ stdin = <<>> /\ stdout = <<>> /\ child = "none"
    /\ frames = 0 /\ odd = 0 /\ answered = {} /\ intime = {}
    /\ env_vars = NoEnv /\ childEnv = NoEnv
    /\ decodedMain = {} /\ decodedShut = {} /\ outOfOrder = FALSE /\ mainEnd = -1
    /\ lastRead = [declared |-> 0, got |-> 0, eof |-> FALSE, result |-> "none"]
    /\ RelayIdle

Init ==
    /\ HarnessInit /\ CountIdle
    /\ osEnv = [NoEnv EXCEPT !["HOME"] = "true"]
    /\ cfgEnv = [NoEnv EXCEPT !["RUST_LOG"] = "debug"]
    /\ compat = FALSE

\* ------------------------------------------------------- main(): launching
\* load_server_from_config and the --compat handling; a missing file, server
\* or command raises before anything is spawned.
LoadConfig ==
    /\ pc = "load_config"
    /\ \/ pc' = "spawn" /\ exc' = exc
       \/ pc' = "exited" /\ exc' = "ConfigError"
    /\ UNCHANGED <<nextReq, pass, now, deadline, wanted, responses, shutdown_resp,
                   headers, length, printed, tlog>>
    /\ UNCHANGED <<ioVars, envVars, relayVars, countVars, histVars>>

\* spawn_server, which also starts the drain_stderr thread; Popen raises when the
\* executable cannot be started.
SpawnServer ==
    /\ pc = "spawn"
    /\ \/ /\ pc' = "send" /\ exc' = exc /\ child' = "running"
          /\ env_vars' = BuildEnvVars(osEnv, CmdEnv(cfgEnv, compat))
          /\ childEnv' = PopenEnv(osEnv, BuildEnvVars(osEnv, CmdEnv(cfgEnv, compat)))
          /\ relay' = "running"
       \/ /\ pc' = "exited" /\ exc' = "LaunchError" /\ child' = child
          /\ env_vars' = BuildEnvVars(osEnv, CmdEnv(cfgEnv, compat))
          /\ childEnv' = childEnv
          /\ relay' = relay
    /\ UNCHANGED <<stderr, errout, countVars>>
    /\ UNCHANGED <<nextReq, pass, now, deadline, wanted, responses, shutdown_resp,
                   headers, length, printed, tlog>>
    /\ UNCHANGED <<stdin, stdout, frames, odd, answered, intime, osEnv, cfgEnv, compat>>
    /\ UNCHANGED histVars

\* ------------------------------------------------------------ run_sequence
\* Mutant of BatchRequests: tools/call(health_check) is written before tools/list.
BatchRequests_Swapped ==
    << Request(REQ_INIT, "initialize"),
       Request(REQ_HEALTH, "tools/call(health_check)"),
       Request(REQ_LIST, "tools/list"),
       Request(REQ_QUERY, "tools/call(query_memory)") >>

\* The four requests of the batch, in the order run_sequence writes them.
BatchRequests ==
    << Request(REQ_INIT, "initialize"), Request(REQ_LIST, "tools/list"),
       Request(REQ_HEALTH, "tools/call(health_check)"),
       Request(REQ_QUERY, "tools/call(query_memory)") >>

\* The child has gone: its ends of the pipes are closed.
Gone == child \in {"exited", "killed"}

\* Mutant of Raise: the teardown is not in a finally block, an exception skips it.
Raise_NoFinally(e) == pc' = "exited" /\ exc' = e

\* An exception leaves run_sequence: control goes to main()'s finally block.
Raise(e) == pc' = "close_stdin" /\ exc' = e

\* One write_lsp_message of the batch; the write raises BrokenPipeError when the
\* child has gone.  After the fourth, wanted/responses/deadline are set up.
SendRequest ==
    /\ pc = "send"
    /\ IF Gone
       THEN /\ Raise("BrokenPipeError")
            /\ UNCHANGED <<nextReq, stdin, wanted, responses, deadline>>
       ELSE /\ stdin' = stdin \o Encode(BatchRequests[nextReq])
            /\ exc' = exc
            /\ IF nextReq < Len(BatchRequests)
               THEN /\ nextReq' = nextReq + 1 /\ pc' = "send"
                    /\ UNCHANGED <<wanted, responses, deadline>>
               ELSE /\ nextReq' = nextReq /\ pc' = "check"
                    /\ wanted' = Batch /\ responses' = EmptyDict
                    /\ deadline' = now + MainTimeout
    /\ UNCHANGED <<pass, now, shutdown_resp, headers, length, printed, tlog>>
    /\ UNCHANGED <<stdout, child, frames, odd, answered, intime>>
    /\ UNCHANGED <<envVars, relayVars, countVars, histVars>>


\* --- the polling loops --------------------------------------------------
\* Mutant of MainCheck: the deadline test is <= instead of <.
MainCheck_LateDeadline ==
    /\ pc = "check" /\ pass = "main"
    /\ IF wanted # {} /\ now <= deadline
       THEN pc' = "select" /\ mainEnd' = mainEnd
       ELSE pc' = "send_shutdown" /\ mainEnd' = now
    /\ UNCHANGED <<nextReq, pass, now, deadline, wanted, responses, shutdown_resp,
                   headers, length, printed, exc, tlog>>
    /\ UNCHANGED <<ioVars, envVars, relayVars, countVars, decodedMain, decodedShut, outOfOrder, lastRead>>

\* while wanted and time.time() < deadline
MainCheck ==
    /\ pc = "check" /\ pass = "main"
    /\ IF wanted # {} /\ now < deadline
       THEN pc' = "select" /\ mainEnd' = mainEnd
       ELSE pc' = "send_shutdown" /\ mainEnd' = now
    /\ UNCHANGED <<nextReq, pass, now, deadline, wanted, responses, shutdown_resp,
                   headers, length, printed, exc, tlog>>
    /\ UNCHANGED <<ioVars, envVars, relayVars, countVars, decodedMain, decodedShut, outOfOrder, lastRead>>

\* Mutant of SendShutdown: the results are printed right after the request is
\* written, the second polling loop is skipped.
SendShutdown_SkipPass ==
    /\ pc = "send_shutdown"
    /\ IF Gone
       THEN /\ Raise("BrokenPipeError")
            /\ UNCHANGED <<stdin, pass, deadline>>
       ELSE /\ stdin' = stdin \o Encode(Request(REQ_SHUTDOWN, "shutdown"))
            /\ exc' = exc /\ pc' = "print"
            /\ pass' = "shutdown" /\ deadline' = now + ShutdownTimeout
    /\ UNCHANGED <<nextReq, now, wanted, responses, shutdown_resp, headers, length,
                   printed, tlog>>
    /\ UNCHANGED <<stdout, child, frames, odd, answered, intime>>
    /\ UNCHANGED <<envVars, relayVars, countVars, histVars>>

\* write_lsp_message of the shutdown request, then shutdown_deadline is set
SendShutdown ==
    /\ pc = "send_shutdown"
    /\ IF Gone
       THEN /\ Raise("BrokenPipeError")
            /\ UNCHANGED <<stdin, pass, deadline>>
       ELSE /\ stdin' = stdin \o Encode(Request(REQ_SHUTDOWN, "shutdown"))
            /\ exc' = exc /\ pc' = "check"
            /\ pass' = "shutdown" /\ deadline' = now + ShutdownTimeout
    /\ UNCHANGED <<nextReq, now, wanted, responses, shutdown_resp, headers, length,
                   printed, tlog>>
    /\ UNCHANGED <<stdout, child, frames, odd, answered, intime>>
    /\ UNCHANGED <<envVars, relayVars, countVars, histVars>>

\* while time.time() < shutdown_deadline
ShutdownCheck ==
    /\ pc = "check" /\ pass = "shutdown"
    /\ pc' = IF now < deadline THEN "select" ELSE "print"
    /\ UNCHANGED <<nextReq, pass, now, deadline, wanted, responses, shutdown_resp,
                   headers, length, printed, exc, tlog>>
    /\ UNCHANGED <<ioVars, envVars, relayVars, countVars, histVars>>

\* select.select([proc.stdout], [], [], 0.5): readable when bytes are there or
\* the stream has ended; otherwise it returns empty after the timeout.
Readable == stdout # <<>> \/ Gone

Select ==
    /\ pc = "select"
    /\ IF Readable
       THEN pc' = "readline" /\ headers' = NoHeaders /\ now' = now
       ELSE pc' = "check" /\ headers' = headers /\ now' = now + 1
    /\ UNCHANGED <<nextReq, pass, deadline, wanted, responses, shutdown_resp,
                   length, printed, exc, tlog>>
    /\ UNCHANGED <<ioVars, envVars, relayVars, countVars, histVars>>

\* Mutant of HandleMain: an id that is not pending is put back into wanted.
HandleMain_Regrow(resp) ==
    IF resp = PyNone
    THEN /\ pc' = "check" /\ exc' = exc
         /\ UNCHANGED <<responses, wanted, decodedMain, outOfOrder>>
    ELSE IF ~IsDict(resp)
    THEN /\ Raise("AttributeError")
         /\ UNCHANGED <<responses, wanted, decodedMain, outOfOrder>>
    ELSE /\ responses' = Put(responses, resp.id, resp)
         /\ wanted' = IF resp.id \in wanted THEN wanted \ {resp.id}
                      ELSE wanted \cup {resp.id}
         /\ decodedMain' = decodedMain \cup {resp}
         /\ outOfOrder' = (outOfOrder \/ \E j \in wanted : j < resp.id)
         /\ pc' = "check" /\ exc' = exc

\* Mutant of HandleMain: a message whose id is not pending is dropped.
HandleMain_RejectUnknown(resp) ==
    IF resp = PyNone
    THEN /\ pc' = "check" /\ exc' = exc
         /\ UNCHANGED <<responses, wanted, decodedMain, outOfOrder>>
    ELSE IF ~IsDict(resp)
    THEN /\ Raise("AttributeError")
         /\ UNCHANGED <<responses, wanted, decodedMain, outOfOrder>>
    ELSE /\ responses' = IF resp.id \in wanted
                         THEN Put(responses, resp.id, resp) ELSE responses
         /\ wanted' = wanted \ {resp.id}
         /\ decodedMain' = decodedMain \cup {resp}
         /\ outOfOrder' = (outOfOrder \/ \E j \in wanted : j < resp.id)
         /\ pc' = "check" /\ exc' = exc

\* What the main loop does with read_lsp_message's result.
HandleMain(resp) ==
    IF resp = PyNone
    THEN /\ pc' = "check" /\ exc' = exc
         /\ UNCHANGED <<responses, wanted, decodedMain, outOfOrder>>
    ELSE IF ~IsDict(resp)
    THEN /\ Raise("AttributeError")
         /\ UNCHANGED <<responses, wanted, decodedMain, outOfOrder>>
    ELSE /\ responses' = Put(responses, resp.id, resp)
         /\ wanted' = wanted \ {resp.id}
         /\ decodedMain' = decodedMain \cup {resp}
         /\ outOfOrder' = (outOfOrder \/ \E j \in wanted : j < resp.id)
         /\ pc' = "check" /\ exc' = exc

\* Python truth of a decoded value
Truthy(v) == v # PyNone /\ v # PyInt(0)

\* Mutant of HandleShutdown: the id is compared with REQ_QUERY.
HandleShutdown_WrongId(resp) ==
    IF ~Truthy(resp)
    THEN pc' = "check" /\ exc' = exc /\ UNCHANGED <<shutdown_resp, decodedShut>>
    ELSE IF ~IsDict(resp)
    THEN Raise("AttributeError") /\ UNCHANGED <<shutdown_resp, decodedShut>>
    ELSE /\ decodedShut' = decodedShut \cup {resp}
         /\ exc' = exc
         /\ IF resp.id = REQ_QUERY
            THEN shutdown_resp' = resp /\ pc' = "print"
            ELSE shutdown_resp' = shutdown_resp /\ pc' = "check"

\* Mutant of HandleShutdown: the match is recorded but the loop is not left.
HandleShutdown_NoBreak(resp) ==
    IF ~Truthy(resp)
    THEN pc' = "check" /\ exc' = exc /\ UNCHANGED <<shutdown_resp, decodedShut>>
    ELSE IF ~IsDict(resp)
    THEN Raise("AttributeError") /\ UNCHANGED <<shutdown_resp, decodedShut>>
    ELSE /\ decodedShut' = decodedShut \cup {resp}
         /\ exc' = exc /\ pc' = "check"
         /\ shutdown_resp' = IF resp.id = REQ_SHUTDOWN THEN resp ELSE shutdown_resp

\* What the shutdown loop does with read_lsp_message's result.
HandleShutdown(resp) ==
    IF ~Truthy(resp)
    THEN pc' = "check" /\ exc' = exc /\ UNCHANGED <<shutdown_resp, decodedShut>>
    ELSE IF ~IsDict(resp)
    THEN Raise("AttributeError") /\ UNCHANGED <<shutdown_resp, decodedShut>>
    ELSE /\ decodedShut' = decodedShut \cup {resp}
         /\ exc' = exc
         /\ IF resp.id = REQ_SHUTDOWN
            THEN shutdown_resp' = resp /\ pc' = "print"
            ELSE shutdown_resp' = shutdown_resp /\ pc' = "check"

\* Mutant of Return: the shutdown loop also records what it decodes in responses.
Return_LateRecorded(resp) ==
    IF pass = "main"
    THEN HandleMain(resp) /\ UNCHANGED <<shutdown_resp, decodedShut>>
    ELSE /\ HandleShutdown(resp)
         /\ responses' = IF Truthy(resp) /\ IsDict(resp)
                         THEN Put(responses, resp.id, resp) ELSE responses
         /\ UNCHANGED <<wanted, decodedMain, outOfOrder>>

\* read_lsp_message returns resp to the loop that called it.
Return(resp) ==
    IF pass = "main"
    THEN HandleMain(resp) /\ UNCHANGED <<shutdown_resp, decodedShut>>
    ELSE HandleShutdown(resp) /\ UNCHANGED <<responses, wanted, decodedMain, outOfOrder>>

\* read_lsp_message raises: nothing catches it in run_sequence.
RaiseInRead(e) ==
    /\ Raise(e)
    /\ UNCHANGED <<responses, wanted, shutdown_resp, decodedMain, decodedShut,
                   outOfOrder>>

IsBlankLine(line) == line \in {<<"\r", "\n">>, <<"\n">>}

\* One turn of the header loop of read_lsp_message: a readline, and what follows
\* it up to the next blocking call.
ReadLine ==
    /\ pc = "readline"
    /\ CanReadline(stdout, Gone)
    /\ LET n == LineLen(stdout)
           line == SubSeq(stdout, 1, n)
           len == IntOrZero(HeaderGet(headers))
       IN  /\ stdout' = SubSeq(stdout, n + 1, Len(stdout))
           /\ IF line = <<>>
              THEN /\ Return(PyNone) /\ now' = now + 1
                   /\ UNCHANGED <<headers, length>>
              ELSE IF IsBlankLine(line)
              THEN /\ now' = now /\ headers' = headers
                   /\ IF len <= 0
                      THEN Return(PyNone) /\ length' = length
                      ELSE /\ pc' = "readbody" /\ length' = len /\ exc' = exc
                           /\ UNCHANGED <<responses, wanted, shutdown_resp,
                                          decodedMain, decodedShut, outOfOrder>>
              ELSE /\ now' = now /\ length' = length /\ pc' = "readline" /\ exc' = exc
                   /\ headers' = IF IndexOf(line, ":", 1) > 0
                                 THEN HeaderPut(headers, line) ELSE headers
                   /\ UNCHANGED <<responses, wanted, shutdown_resp,
                                  decodedMain, decodedShut, outOfOrder>>
    /\ UNCHANGED <<nextReq, pass, deadline, printed, tlog>>
    /\ UNCHANGED <<stdin, child, frames, odd, answered, intime>>
    /\ UNCHANGED <<envVars, relayVars, countVars, mainEnd, lastRead>>

Min(a, b) == IF a <= b THEN a ELSE b

\* Mutant of BodyLen: the read takes one byte less than the header declares.
BodyLen_Short(len, s) == Min(len - 1, Len(s))

\* stdout.read(length) on the unbuffered pipe: one read, which gives what is
\* there, up to length bytes; nothing only at end-of-stream.
BodyLen(len, s) == Min(len, Len(s))

\* body = stdout.read(length) and the rest of read_lsp_message
ReadBody ==
    /\ pc = "readbody"
    /\ Readable
    /\ LET n == BodyLen(length, stdout)
           body == SubSeq(stdout, 1, n)
       IN  /\ stdout' = SubSeq(stdout, n + 1, Len(stdout))
           /\ IF body = <<>>
              THEN Return(PyNone)
              ELSE IF ~JsonValid(body)
              THEN RaiseInRead("JSONDecodeError")
              ELSE Return(JsonLoads(body))
           /\ lastRead' = [declared |-> length, got |-> n,
                           eof |-> Gone /\ n = Len(stdout),
                           result |-> IF body = <<>> THEN "none"
                                      ELSE IF ~JsonValid(body) THEN "error"
                                      ELSE "value"]
    /\ UNCHANGED <<nextReq, pass, now, deadline, headers, length, printed, tlog>>
    /\ UNCHANGED <<stdin, child, frames, odd, answered, intime>>
    /\ UNCHANGED <<envVars, relayVars, countVars, mainEnd>>

\* The harness waits inside readline() or read(): the child has written part of
\* a frame and neither more bytes nor the end of the stream has come.
InBlockedRead ==
    \/ pc = "readline" /\ ~CanReadline(stdout, Gone)
    \/ pc = "readbody" /\ ~Readable

WaitInRead ==
    /\ InBlockedRead
    /\ now < deadline + MaxBlocked
    /\ now' = now + 1
    /\ UNCHANGED <<pc, nextReq, pass, deadline, wanted, responses, shutdown_resp,
                   headers, length, printed, exc, tlog>>
    /\ UNCHANGED <<ioVars, envVars, relayVars, countVars, histVars>>


\* --- printing -----------------------------------------------------------
\* json.dumps(value, indent=2): "null" for None (layout whitespace left out)
Render(v) == IF v = PyNone THEN <<"null">> ELSE JsonDumps(v)

Line(label, v) == [label |-> label, text |-> Render(v)]

\* the five print calls that end run_sequence
PrintResults ==
    /\ pc = "print"
    /\ printed' = printed \o
          << Line("initialize =>", Get(responses, REQ_INIT)),
             Line("tools/list =>", Get(responses, REQ_LIST)),
             Line("tools/call(health_check) =>", Get(responses, REQ_HEALTH)),
             Line("tools/call(query_memory) =>", Get(responses, REQ_QUERY)),
             Line("shutdown =>", shutdown_resp) >>
    /\ pc' = "close_stdin"
    /\ UNCHANGED <<nextReq, pass, now, deadline, wanted, responses, shutdown_resp,
                   headers, length, exc, tlog>>
    /\ UNCHANGED <<ioVars, envVars, relayVars, countVars, histVars>>

\* --- main(): the finally block ------------------------------------------
\* proc.stdin.close(), whatever it raises being ignored
CloseStdin ==
    /\ pc = "close_stdin"
    /\ tlog' = Append(tlog, "stdin.close")
    /\ pc' = "terminate"
    /\ UNCHANGED <<nextReq, pass, now, deadline, wanted, responses, shutdown_resp,
                   headers, length, printed, exc>>
    /\ UNCHANGED <<ioVars, envVars, relayVars, countVars, histVars>>

\* proc.terminate()
Terminate ==
    /\ pc = "terminate"
    /\ tlog' = Append(tlog, "terminate")
    /\ pc' = "wait"
    /\ UNCHANGED <<nextReq, pass, now, deadline, wanted, responses, shutdown_resp,
                   headers, length, printed, exc>>
    /\ UNCHANGED <<ioVars, envVars, relayVars, countVars, histVars>>

\* proc.wait(timeout=5), and proc.kill() on TimeoutExpired
WaitOrKill ==
    /\ pc = "wait"
    /\ IF Gone
       THEN tlog' = Append(tlog, "wait") /\ child' = child
       ELSE tlog' = tlog \o <<"wait", "kill">> /\ child' = "killed"
    /\ pc' = "exited"
    /\ UNCHANGED <<nextReq, pass, now, deadline, wanted, responses, shutdown_resp,
                   headers, length, printed, exc>>
    /\ UNCHANGED <<stdin, stdout, frames, odd, answered, intime>>
    /\ UNCHANGED <<envVars, relayVars, countVars, histVars>>

\* The exit status of the harness process: an exception that leaves main() ends
\* it with a traceback and status 1.
ExitStatus == IF exc = "none" THEN 0 ELSE 1

\* --- the child (the environment of the harness) -------------------------
\* The harness learns of what the child did at its next call on the pipes, and
\* its own steps between two such calls take no time: what the child does between
\* two calls is taken to happen right before the later one.
\* A write is seen by select.
WritePcs == {"select"}
\* An exit is seen by a write to stdin, by select and by proc.wait (and by a
\* read that waits for the child).
ExitPcs == {"send", "select", "send_shutdown", "wait"}

\* A frame whose body is no JSON text.
BadJsonFrame == Frame(1, <<"{">>)
\* A frame whose length is no number.
BadLenFrame == <<"Content-Length", ":", " ", "x", "\r", "\n", "\r", "\n">>
\* A header block without a length.
BlankFrame == <<"\r", "\n">>
\* A notification, with an upper-case header name and bare line feeds.
LfFrame ==
    <<"CONTENT-LENGTH", ":">> \o DecStr(Len(JsonDumps(Response(NoId, "a")))) \o
    <<"\n", "\n">> \o JsonDumps(Response(NoId, "a"))

OddFrames ==
    {BadJsonFrame, BadLenFrame, BlankFrame, LfFrame, Encode(PyInt(0)), Encode(PyInt(7))}

\* The loop that polls now is the one that waits for id i.
Awaited(i) ==
    \/ i \in Batch /\ pass = "main"
    \/ i = REQ_SHUTDOWN /\ pass = "shutdown"

ChildCanWrite(f) ==
    /\ child = "running" /\ pc \in WritePcs
    /\ frames < MaxFrames
    /\ Len(stdout) + Len(f) <= PipeCap

ChildPut(f) ==
    /\ stdout' = stdout \o f
    /\ frames' = frames + 1
    /\ UNCHANGED <<stdin, child, harnessVars, envVars, relayVars, countVars, histVars>>

\* The child writes a well-formed response with id i (i = NoId: without an id).
\* A second response to the same id differs from the first.
ChildRespond(i) ==
    LET f == Encode(Response(i, IF i \in answered THEN "b" ELSE "a"))
    IN  /\ ChildCanWrite(f)
        /\ ChildPut(f)
        /\ answered' = answered \cup {i} /\ odd' = odd
        /\ intime' = IF Awaited(i) THEN intime \cup {i} ELSE intime

\* The child writes something else.
ChildWriteOdd(f) ==
    /\ ChildCanWrite(f) /\ odd < MaxOdd
    /\ ChildPut(f)
    /\ answered' = answered /\ odd' = odd + 1 /\ intime' = intime

\* The child exits: its ends of the pipes close.
ChildExit ==
    /\ child = "running"
    /\ pc \in ExitPcs \/ InBlockedRead
    /\ child' = "exited"
    /\ UNCHANGED <<stdin, stdout, frames, odd, answered, intime, harnessVars, envVars, relayVars, countVars, histVars>>

Harness ==
    \/ LoadConfig
    \/ SpawnServer
    \/ SendRequest
    \/ MainCheck
    \/ SendShutdown
    \/ ShutdownCheck
    \/ Select
    \/ ReadLine
    \/ ReadBody
    \/ PrintResults
    \/ CloseStdin
    \/ Terminate
    \/ WaitOrKill

\* Any child that writes whole frames.
Next ==
    \/ Harness
    \/ \E i \in Ids \cup {NoId} : ChildRespond(i)
    \/ \E f \in OddFrames : ChildWriteOdd(f)
    \/ ChildExit

Spec == Init /\ [][Next]_vars

\* --- a child that stops in the middle of a frame -------------------------
\* Bodies of the frames that get cut: a response and a bare number.
CutBodies == {JsonDumps(Response(REQ_INIT, "a")), JsonDumps(PyInt(7))}

\* The child writes the first k units of a frame that declares n and holds body,
\* and nothing after them.
ChildWritePartial(body, n, k) ==
    /\ child = "running" /\ pc \in WritePcs
    /\ frames = 0
    /\ stdout' = stdout \o SubSeq(Frame(n, body), 1, k)
    /\ frames' = frames + 1
    /\ UNCHANGED <<stdin, child, odd, answered, intime, harnessVars, envVars, relayVars, countVars, histVars>>

NextTrunc ==
    \/ Harness
    \/ WaitInRead
    \/ \E body \in CutBodies : \E n \in {Len(body), Len(body) + 1} :
          \E k \in 1..Len(Frame(n, body)) : ChildWritePartial(body, n, k)
    \/ ChildExit

SpecTrunc == Init /\ [][NextTrunc]_vars

\* --- the echo child ------------------------------------------------------
\* The ids of the requests the child has received on its stdin.
RequestIdsIn(s) == { DigitVal(s[j + 1]) : j \in {x \in 1..(Len(s) - 1) : s[x] = "id:"} }

RequestWithId(i) == CHOOSE r \in Requests : r.id = i

\* The child sends a request it has received back as it is, once.
EchoReply(i) ==
    /\ child = "running" /\ pc \in WritePcs
    /\ i \in RequestIdsIn(stdin) /\ i \notin answered
    /\ Len(stdout) + Len(Encode(RequestWithId(i))) <= PipeCap
    /\ stdout' = stdout \o Encode(RequestWithId(i))
    /\ frames' = frames + 1
    /\ answered' = answered \cup {i}
    /\ intime' = IF Awaited(i) THEN intime \cup {i} ELSE intime
    /\ UNCHANGED <<stdin, child, odd, harnessVars, envVars, relayVars, countVars, histVars>>

NextEcho ==
    \/ Harness
    \/ \E i \in Ids : EchoReply(i)
    \/ ChildExit

SpecEcho == Init /\ [][NextEcho]_vars

\* --- the launcher alone, for every environment ---------------------------
EnvInit ==
    /\ HarnessInit /\ CountIdle
    /\ osEnv \in [EnvKeys -> EnvVals]
    /\ cfgEnv \in [EnvKeys -> EnvVals]
    /\ compat \in BOOLEAN

NextEnv ==
    \/ LoadConfig
    \/ SpawnServer

SpecEnv == EnvInit /\ [][NextEnv]_vars

\* --- the stderr relay -----------------------------------------------------
\* The child writes a line to its stderr, at any time.
ChildWriteErr ==
    /\ child = "running"
    /\ Len(stderr) + Len(errout) < MaxErrLines
    /\ stderr' = Append(stderr, "log line")
    /\ UNCHANGED <<relay, errout, harnessVars, ioVars, envVars, histVars, countVars>>

\* Mutant of RelayLine: a failed write to sys.stderr is raised into main().
RelayLine_Propagates ==
    /\ relay = "running" /\ stderr # <<>>
    /\ stderr' = Tail(stderr)
    /\ \/ /\ errout' = Append(errout, "forwarded")
          /\ UNCHANGED <<pc, exc>>
       \/ /\ errout' = Append(errout, "lost")
          /\ pc' = "close_stdin" /\ exc' = "OSError"
    /\ UNCHANGED <<relay, nextReq, pass, now, deadline, wanted, responses,
                   shutdown_resp, headers, length, printed, tlog>>
    /\ UNCHANGED <<ioVars, envVars, histVars, countVars>>

\* drain_stderr, one turn of its loop: a line is taken from proc.stderr and
\* written to sys.stderr; the write may fail, and the failure is passed over.
RelayLine ==
    /\ relay = "running" /\ stderr # <<>>
    /\ stderr' = Tail(stderr)
    /\ \/ errout' = Append(errout, "forwarded")
       \/ errout' = Append(errout, "lost")
    /\ UNCHANGED <<relay, harnessVars, ioVars, envVars, histVars, countVars>>

\* drain_stderr: readline gives b"" at end-of-stream and the thread ends.
RelayEnd ==
    /\ relay = "running" /\ stderr = <<>> /\ Gone
    /\ relay' = "done"
    /\ UNCHANGED <<stderr, errout, harnessVars, ioVars, envVars, histVars, countVars>>

\* The harness and its relay thread against the echo child.
NextRelay ==
    \/ Harness
    \/ \E i \in Ids : EchoReply(i)
    \/ ChildExit
    \/ ChildWriteErr
    \/ RelayLine
    \/ RelayEnd

SpecRelay == Init /\ [][NextRelay]_vars

\* --- the codec on its own: what is written is read back -------------------
\* A pipe whose write end is given to write_lsp_message and whose read end to
\* read_lsp_message; stdin records what was written.
CodecInit ==
    /\ pc = "write" /\ nextReq = 1 /\ pass = "main"
    /\ now = 0 /\ deadline = 0
    /\ wanted = {} /\ responses = EmptyDict /\ shutdown_resp = PyNone
    /\ headers = NoHeaders /\ length = 0
    /\ printed = <<>> /\ exc = "none" /\ tlog = <<>>
    /\ stdin = <<>> /\ stdout = <<>> /\ child = "running"
    /\ frames = 0 /\ odd = 0 /\ answered = {} /\ intime = {}
    /\ osEnv = NoEnv /\ cfgEnv = NoEnv /\ compat = FALSE
    /\ env_vars = NoEnv /\ childEnv = NoEnv
    /\ decodedMain = {} /\ decodedShut = {} /\ outOfOrder = FALSE /\ mainEnd = -1
    /\ lastRead = [declared |-> 0, got |-> 0, eof |-> FALSE, result |-> "none"]
    /\ RelayIdle /\ CountIdle

\* write_lsp_message(m): header and body go down the pipe.
CodecWrite(m) ==
    /\ pc = "write"
    /\ stdin' = stdin \o Encode(m)
    /\ stdout' = stdout \o Encode(m)
    /\ nextReq' = nextReq + 1
    /\ pc' = IF nextReq < MaxMsgs THEN "write" ELSE "check"
    /\ UNCHANGED <<pass, now, deadline, wanted, responses, shutdown_resp, headers,
                   length, printed, exc, tlog>>
    /\ UNCHANGED <<child, frames, odd, answered, intime>>
    /\ UNCHANGED <<envVars, relayVars, countVars, histVars>>

\* read_lsp_message is called on the read end.
CodecRead ==
    /\ pc = "check" /\ stdout # <<>>
    /\ pc' = "readline" /\ headers' = NoHeaders
    /\ UNCHANGED <<nextReq, pass, now, deadline, wanted, responses, shutdown_resp,
                   length, printed, exc, tlog>>
    /\ UNCHANGED <<ioVars, envVars, relayVars, countVars, histVars>>

NextCodec ==
    \/ \E m \in Msgs : CodecWrite(m)
    \/ CodecRead
    \/ ReadLine
    \/ ReadBody

SpecCodec == CodecInit /\ [][NextCodec]_vars

\* --- scripts/count_unwrap_expect.py: count_unwraps_in_file ----------------
\* A line is a sequence of tokens: the markers, the braces, the calls and the
\* comment sign are tokens of their own, anything else is an opaque token.
LineKinds ==
    { <<"#[cfg(test)]">>,
      <<"#[test]">>,
      <<"mod tests", "{">>,
      <<"}">>,
      <<"x", ".unwrap()", ";">>,
      <<"//", ".expect(">>,
      <<"fn f()", "{", "y", ".expect(", "}">> }

\* The paths tried: one without "test" in it and one with.
Paths == { <<"src", "/", "lib.rs">>, <<"src", "/", "test", "_util.rs">> }

\* tok in line
Has(line, tok) == \E i \in DOMAIN line : line[i] = tok
\* line.count(tok)
Count(line, tok) == Cardinality({i \in DOMAIN line : line[i] = tok})

\* line.split('//')[0]
CodeLine(line) ==
    IF Has(line, "//") THEN SubSeq(line, 1, IndexOf(line, "//", 1) - 1) ELSE line

\* '#[cfg(test)]' in line or '#[test]' in line
IsMarker(line) == Has(line, "#[cfg(test)]") \/ Has(line, "#[test]")

\* '.unwrap()' in code_line or '.expect(' in code_line
HasUnwrap(line) == Has(CodeLine(line), ".unwrap()") \/ Has(CodeLine(line), ".expect(")

\* 'test' in str(file_path)
PathIsTest(p) == Has(p, "test")

\* The file has been read: the locals as lines 26-29 set them.
CountInit ==
    /\ HarnessInit
    /\ osEnv = NoEnv /\ cfgEnv = NoEnv /\ compat = FALSE
    /\ file_path \in Paths
    /\ lines \in UNION {[1..n -> LineKinds] : n \in 1..MaxLines}
    /\ line_num = 0 /\ in_test_module = FALSE
    /\ production_count = 0 /\ test_count = 0 /\ brace_count = 0
    /\ counted = <<>>

\* One turn of the for loop.
CountLine ==
    /\ line_num < Len(lines)
    /\ LET line == lines[line_num + 1]
           counting == ~IsMarker(line) /\ in_test_module
           braces == IF counting
                     THEN brace_count + Count(line, "{") - Count(line, "}")
                     ELSE brace_count
           left == counting /\ braces < 0
           in_test == IF IsMarker(line) THEN TRUE
                      ELSE IF left THEN FALSE ELSE in_test_module
           as_test == in_test \/ PathIsTest(file_path)
       IN  /\ line_num' = line_num + 1
           /\ in_test_module' = in_test
           /\ brace_count' = IF left THEN 0 ELSE braces
           /\ test_count' = IF HasUnwrap(line) /\ as_test
                            THEN test_count + 1 ELSE test_count
           /\ production_count' = IF HasUnwrap(line) /\ ~as_test
                                  THEN production_count + 1 ELSE production_count
           /\ counted' = Append(counted, IF ~HasUnwrap(line) THEN "none"
                                         ELSE IF as_test THEN "test" ELSE "prod")
    /\ UNCHANGED <<file_path, lines>>
    /\ UNCHANGED <<harnessVars, ioVars, envVars, histVars, relayVars>>

NextCount == CountLine

SpecCount == CountInit /\ [][NextCount]_vars

\* ================================================================= claims
LoopPcs == {"check", "select", "readline", "readbody"}
Null == <<"null">>
Spawned == child # "none"

\* C1: a correlation pass ends when its pending set is empty or its deadline is
\* reached, whatever the child does: the harness is never inside one of the two
\* polling loops with the clock past the loop's deadline.
C1_PassEndsByDeadline == pc \in LoopPcs => now <= deadline

\* C2: a complete frame whose body is not valid JSON does not abort the pass:
\* once such a body has been read, no exception is propagating.
C2_BadJsonSkipped == lastRead.result = "error" => exc = "none"

\* C3: once the child has been spawned, every run ends having printed all five
\* result lines and without a failure exit; a failure exit happens only for a
\* configuration or launch error.
C3_AlwaysFiveLines ==
    /\ pc = "exited" /\ Spawned => Len(printed) = 5 /\ ExitStatus = 0
    /\ pc = "exited" /\ ExitStatus # 0 => exc \in {"ConfigError", "LaunchError"}

\* C4: a body of fewer bytes than the header declares, followed by end-of-stream,
\* makes read_lsp_message return None: it neither raises nor returns a message.
C4_TruncatedBodyAbsent ==
    lastRead.eof /\ lastRead.declared > 0 /\ lastRead.got < lastRead.declared
        => lastRead.result = "none"

\* The response with id i that the main loop took last (a second response to an
\* id carries "b").
LastFor(i) ==
    IF Response(i, "b") \in decodedMain THEN Response(i, "b") ELSE Response(i, "a")

BatchLines(v1, v2, v3, v4) ==
    << Line("initialize =>", v1), Line("tools/list =>", v2),
       Line("tools/call(health_check) =>", v3),
       Line("tools/call(query_memory) =>", v4) >>

\* C5: order independence: when the responses to ids 1..4 have all been delivered
\* before the main loop's deadline, in whatever order, the response table maps
\* each id to the response bearing it, and the four result lines, once printed,
\* are in the fixed order with that content.
C5_OrderIndependent ==
    mainEnd >= 0 /\ Batch \subseteq intime =>
        /\ \A i \in Batch : i \in DOMAIN responses /\ responses[i] = LastFor(i)
        /\ printed # <<>> =>
              SubSeq(printed, 1, 4) =
                  BatchLines(LastFor(REQ_INIT), LastFor(REQ_LIST),
                             LastFor(REQ_HEALTH), LastFor(REQ_QUERY))

C5_Witness ==
    /\ pc = "exited" /\ Batch \subseteq intime /\ outOfOrder
    /\ \E i \in Batch : Response(i, "b") \in decodedMain
    /\ Len(printed) = 5
    /\ \A k \in 1..4 : printed[k].text # Null

\* C6: partial timeout: when some batch ids are not answered before the deadline,
\* the main loop ends at the deadline; the table holds an entry for exactly the
\* batch ids answered in time; the others are printed as null; and well-formed
\* responses alone never make a decode raise.
C6_PartialTimeout ==
    /\ odd = 0 => exc \notin {"JSONDecodeError", "AttributeError"}
    /\ mainEnd >= 0 =>
        /\ Batch \cap DOMAIN responses = Batch \cap intime
        /\ ~(Batch \subseteq intime) => mainEnd = MainTimeout
        /\ printed # <<>> =>
              \A i \in Batch : (printed[i].text = Null) <=> (i \notin intime)

C6_Witness ==
    /\ pc = "exited" /\ exc = "none"
    /\ Batch \cap intime = {REQ_INIT, REQ_LIST, REQ_HEALTH}
    /\ Len(printed) = 5
    /\ printed[REQ_QUERY].text = Null /\ printed[REQ_INIT].text # Null

\* The orchestrator's states, numbered in their order.
PhaseRank ==
    IF ~Spawned \/ pc = "send" THEN 0                     \* Init
    ELSE IF pc \in LoopPcs /\ pass = "main" THEN 1          \* BatchSent
    ELSE IF pc = "send_shutdown" THEN 2                     \* BatchCollected
    ELSE IF pc \in LoopPcs /\ pass = "shutdown" THEN 3      \* ShutdownSent
    ELSE IF pc = "print" THEN 4                             \* ShutdownCollected
    ELSE 5                                                  \* Torn Down

C8_TornDownOnce ==
    /\ pc \in {"send", "send_shutdown", "print"} \cup LoopPcs => tlog = <<>>
    /\ pc = "exited" /\ Spawned =>
          \/ tlog = <<"stdin.close", "terminate", "wait">> /\ child = "exited"
          \/ tlog = <<"stdin.close", "terminate", "wait", "kill">> /\ child = "killed"

C8_Witness ==
    /\ pc = "exited" /\ exc = "JSONDecodeError"
    /\ tlog = <<"stdin.close", "terminate", "wait", "kill">>

\* C9: the child runs with the harness's environment overlaid with the configured
\* overrides (MCP_COMPAT_ALIASES=true under --compat), plus RUST_LOG=off when
\* neither defines RUST_LOG.
C9_ChildEnvMerged ==
    child = "running" => childEnv = BuildEnvVars(osEnv, CmdEnv(cfgEnv, compat))

EchoLines ==
    BatchLines(Request(REQ_INIT, "initialize"), Request(REQ_LIST, "tools/list"),
               Request(REQ_HEALTH, "tools/call(health_check)"),
               Request(REQ_QUERY, "tools/call(query_memory)"))
    \o << Line("shutdown =>", Request(REQ_SHUTDOWN, "shutdown")) >>

\* C10: against a child that sends every request back under the same id while the
\* loop that waits for it polls, the run ends without an exception and prints the
\* five exchanges in order, ids 1..5 matched, none of them null.
C10_EchoRun ==
    pc = "exited" /\ intime = Ids =>
        /\ exc = "none"
        /\ printed = EchoLines
        /\ \A k \in 1..5 : printed[k].text # Null

C10_Witness == pc = "exited" /\ intime = Ids /\ Len(printed) = 5

\* The body the read that is about to return takes from the pipe, and whether
\* the step is a read_lsp_message that returns a dict.
ReadNow == SubSeq(stdout, 1, BodyLen(length, stdout))
DecodesDict ==
    /\ pc = "readbody" /\ pc' # "readbody"
    /\ JsonValid(ReadNow) /\ IsDict(JsonLoads(ReadNow))

\* C11: independent shutdown pass: the step that decodes a response with id 5 in
\* the second pass leaves the loop at once, with that response as the shutdown
\* result and before the pass's deadline; a dict with any other id keeps the loop
\* running and the result as it was; and when the loop is left with no id-5
\* response decoded, it is left at its deadline with the shutdown result None.
C11_ShutdownPassEndsOnMatch ==
    /\ [](pc = "print" =>
            IF shutdown_resp = PyNone
            THEN /\ now = deadline
                 /\ ~ \E r \in decodedShut : r.id = REQ_SHUTDOWN
            ELSE /\ shutdown_resp.id = REQ_SHUTDOWN
                 /\ shutdown_resp \in decodedShut
                 /\ now < deadline)
    /\ [][ pass = "shutdown" /\ DecodesDict =>
             IF JsonLoads(ReadNow).id = REQ_SHUTDOWN
             THEN pc' = "print" /\ shutdown_resp' = JsonLoads(ReadNow) /\ now' = now
             ELSE pc' = "check" /\ shutdown_resp' = shutdown_resp ]_vars

C11_Witness ==
    /\ pc = "print" /\ shutdown_resp # PyNone /\ now < deadline
    /\ \E r \in decodedShut : r.id # REQ_SHUTDOWN

\* C12: end-of-stream on the child's stdout before all responses have come, at
\* whatever point of the stream, does not make the pass raise: a read that met
\* the end of the stream inside a body (fewer bytes than declared) leaves no
\* decode exception propagating.
C12_EofNeverRaises ==
    lastRead.eof /\ lastRead.got < lastRead.declared
        => exc \notin {"JSONDecodeError", "AttributeError"}

\* C13: round trip: when write_lsp_message has written m1 and then m2, each
\* read_lsp_message returns without raising; the first gives m1 and leaves exactly
\* the frame of m2 unread, the second gives m2 and leaves nothing.
C13_RoundTrip ==
    /\ exc = "none"
    /\ \A m1, m2 \in Msgs :
          pc = "check" /\ stdin = Encode(m1) \o Encode(m2) =>
              \/ stdout = stdin /\ decodedMain = {}
              \/ stdout = Encode(m2) /\ decodedMain = {m1}
              \/ stdout = <<>> /\ decodedMain = {m1, m2}

C13_Witness ==
    /\ pc = "check" /\ stdout = <<>> /\ Cardinality(decodedMain) = MaxMsgs
    /\ Response(WideId, "a") \in decodedMain

RECURSIVE BatchBytes(_)
\* The frames of the requests with ids 1..k, in the order of their ids.
BatchBytes(k) ==
    IF k = 0 THEN <<>> ELSE BatchBytes(k - 1) \o Encode(RequestWithId(k))

ShutdownBytes == Encode(RequestWithId(REQ_SHUTDOWN))

AllBatchBytes == BatchBytes(Cardinality(Batch))

\* What stdin may hold: the batch up to some point, or all of it and shutdown.
PipelinedStreams ==
    {BatchBytes(k) : k \in 0..Cardinality(Batch)} \cup {AllBatchBytes \o ShutdownBytes}

\* How many requests a stream holds.
RequestCount(s) == Cardinality({x \in 1..Len(s) : s[x] = "id:"})

\* C14: pipelining: what has been written to the child's stdin is always the
\* frames of initialize (1), tools/list (2), health_check (3), query_memory (4)
\* in that order, up to some point, or all four followed by shutdown (5); no read
\* of stdout happens before all four are written; the shutdown request is there
\* only once the main loop has ended; and no id is written twice.
C14_Pipelined ==
    /\ stdin \in PipelinedStreams
    /\ (pc \in LoopPcs \/ decodedMain # {} \/ lastRead.declared > 0)
          => Len(stdin) >= Len(AllBatchBytes)
    /\ REQ_SHUTDOWN \in RequestIdsIn(stdin) => mainEnd >= 0 /\ pass = "shutdown"
    /\ Cardinality(RequestIdsIn(stdin)) = RequestCount(stdin)

C14_Witness ==
    /\ pc = "exited" /\ exc = "none"
    /\ stdin = AllBatchBytes \o ShutdownBytes
    /\ decodedMain # {} /\ decodedShut # {}

\* The ids of the dicts the main loop has decoded.
MainIds == {r.id : r \in decodedMain}
ShutIds == {r.id : r \in decodedShut}

\* C16: the pending set starts as the four wanted ids when the main pass starts
\* and only shrinks in it: a step leaves it as it is or removes the id of the
\* dict decoded in that step; so it is always the wanted ids less the ids decoded
\* so far, and an id once removed is not pending again.
C16_PendingShrinks ==
    /\ [](pass = "main" /\ pc \in LoopPcs \cup {"send_shutdown"}
             => wanted = Batch \ MainIds)
    /\ [][ /\ pc = "send" /\ pc' = "check" => wanted' = Batch
           /\ pc # "send" => wanted' \subseteq wanted
           /\ pc # "send" /\ wanted' # wanted =>
                 /\ pass = "main" /\ DecodesDict
                 /\ wanted' = wanted \ {JsonLoads(ReadNow).id} ]_vars

C16_Witness ==
    /\ pass = "main" /\ pc = "check" /\ wanted = {REQ_QUERY}
    /\ Response(REQ_INIT, "b") \in decodedMain

\* C17: a dict decoded in the main pass whose id is not pending (no id at all
\* included) is recorded in responses under that id, leaves wanted as it is and
\* the loop running; the loop is left before its deadline only with all four
\* wanted ids matched.
C17_UnknownIdRecorded ==
    /\ [](MainIds \subseteq DOMAIN responses)
    /\ [](mainEnd >= 0 /\ mainEnd < MainTimeout
             => wanted = {} /\ Batch \subseteq MainIds)
    /\ [][ pass = "main" /\ DecodesDict /\ JsonLoads(ReadNow).id \notin wanted =>
             /\ responses' =
                   [x \in DOMAIN responses \cup {JsonLoads(ReadNow).id} |->
                       IF x = JsonLoads(ReadNow).id THEN JsonLoads(ReadNow)
                       ELSE responses[x]]
             /\ wanted' = wanted
             /\ pc' = "check" ]_vars

C17_Witness ==
    /\ pc = "exited" /\ mainEnd >= 0 /\ mainEnd < MainTimeout
    /\ NoId \in DOMAIN responses /\ Batch \subseteq DOMAIN responses

\* C18: duplicates are last-write-wins: the entry of an id in responses is the
\* last dict with that id that the main loop decoded; a dict whose id has an
\* entry replaces that entry and changes neither the keys nor the pending set.
C18_LastWriteWins ==
    /\ [](\A i \in Ids \cap DOMAIN responses : responses[i] = LastFor(i))
    /\ [][ pass = "main" /\ DecodesDict /\ JsonLoads(ReadNow).id \in DOMAIN responses =>
             /\ responses'[JsonLoads(ReadNow).id] = JsonLoads(ReadNow)
             /\ DOMAIN responses' = DOMAIN responses
             /\ wanted' = wanted ]_vars

C18_Witness ==
    /\ pc = "exited" /\ Len(printed) = 5
    /\ Response(REQ_INIT, "a") \in decodedMain
    /\ REQ_INIT \in DOMAIN responses
    /\ responses[REQ_INIT] = Response(REQ_INIT, "b")
    /\ printed[REQ_INIT].text = JsonDumps(Response(REQ_INIT, "b"))

\* C19: a response to a batch id that is decoded only in the shutdown pass is
\* discarded: the value printed for a batch id is not null exactly when a dict
\* with that id was decoded in the main pass, and the value printed for shutdown
\* is not null exactly when a dict with id 5 was decoded in the shutdown pass.
C19_LateResponseDiscarded ==
    printed # <<>> =>
        /\ \A i \in Batch : (printed[i].text # Null) <=> (i \in MainIds)
        /\ (printed[REQ_SHUTDOWN].text # Null) <=> (REQ_SHUTDOWN \in ShutIds)

C19_Witness ==
    /\ Len(printed) = 5
    /\ REQ_QUERY \in ShutIds /\ printed[REQ_QUERY].text = Null
    /\ REQ_SHUTDOWN \in MainIds /\ printed[REQ_SHUTDOWN].text = Null

\* C15: the relay thread takes lines from the child's stderr only: its steps
\* leave stdin, stdout and everything of the orchestrator as they are, and
\* stdout is consumed by the orchestrator's reads alone; the thread ends only at
\* end-of-stream on stderr; and a line lost by a failed write changes nothing of
\* the run: against the echo child the five exchanges are printed all the same.
C15_RelayIndependent ==
    /\ [](relay = "done" => Gone /\ stderr = <<>>)
    /\ [](pc = "exited" /\ intime = Ids /\ errout # <<>>
             => exc = "none" /\ printed = EchoLines)
    /\ [][ /\ relay # "none" /\ (relay' # relay \/ errout' # errout \/
                                  Len(stderr') < Len(stderr))
              => UNCHANGED <<harnessVars, stdin, stdout>>
           /\ Len(stdout') < Len(stdout)
              => pc \in {"readline", "readbody"} /\ UNCHANGED relayVars ]_vars

C15_Witness ==
    /\ pc = "exited" /\ printed = EchoLines /\ relay = "done"
    /\ errout = <<"lost", "forwarded">>

RECURSIVE Depth(_, _)
\* How many braces opened on lines j+1..i are still open after line i.
Depth(j, i) ==
    IF i <= j THEN 0
    ELSE Depth(j, i - 1) + Count(lines[i], "{") - Count(lines[i], "}")

\* Line j is a marker and the braces of the item that follows it are balanced
\* again on line m: its closing brace has been read.
ClosedAt(j, m) ==
    /\ j < m /\ IsMarker(lines[j])
    /\ Count(lines[j + 1], "{") > 0
    /\ Depth(j, m) = 0
    /\ \A i \in (j + 1)..(m - 1) : Depth(j, i) > 0

\* C20: the end of a test module is found by brace counting: an unwrap/expect
\* line that comes after the closing brace of the item a marker line opened,
\* with no other marker in between, in a file whose path has no "test" in it, is
\* counted as production; and every unwrap/expect line is counted exactly once.
C20_TestModuleEnds ==
    /\ production_count + test_count =
          Cardinality({k \in 1..line_num : HasUnwrap(lines[k])})
    /\ \A j, m, k \in 1..line_num :
          /\ ClosedAt(j, m) /\ m < k
          /\ \A i \in (j + 1)..k : ~IsMarker(lines[i])
          /\ HasUnwrap(lines[k]) /\ ~PathIsTest(file_path)
          => counted[k] = "prod"

====
